---------------------------- MODULE Spec2Model ----------------------------
(***************************************************************************)
(* A model of pish, a small command shell (src/pish.c, src/pish_history.c).*)
(*                                                                         *)
(* A command chain is a sequence of one-character strings.  execute_chain  *)
(* is modelled as the code computes it: four scans of the text (sequence,  *)
(* conditional, pipe, redirection), then negation, subshell, empty command *)
(* and atomic command.  A call of execute_chain is evaluated in one step;  *)
(* what the processes of the call tree did is recorded, in order, in an    *)
(* event log.  Processes created by fork() get a copy of the caller's      *)
(* process state (working directory, prevDir, last_exit_status, descriptor *)
(* table); the history file and the file system are shared.                *)
(***************************************************************************)
EXTENDS Integers, Sequences, FiniteSets, TLC

VARIABLES
    input,             \* the lines fgets() will still deliver from fp
    script_mode,       \* src/pish.c:19
    last_exit_status,  \* src/pish.c:20
    prevDir,           \* src/pish.c:304
    cwd,               \* the shell process's working directory
    fds,               \* the shell process's descriptor table
    history,           \* the lines of the history file
    history_exists,    \* the history file exists
    files,             \* the paths that exist in the file system
    running,           \* the shell process has not terminated
    exit_ws,           \* how the shell process terminated
    env,               \* what the operating system will do (fork, wait)
    chain,             \* the last chain handed to execute_chain by pish
    returned,          \* execute_chain returned to pish for that chain
    status,            \* the status it returned
    log,               \* the events of that call, in order
    last_external      \* the status of the last external command the shell
                       \* process ran, -1 before the first

vars == <<input, script_mode, last_exit_status, prevDir, cwd, fds, history,
          history_exists, files, running, exit_ws, env, chain, returned, status,
          log, last_external>>

-----------------------------------------------------------------------------
(* Bounds of the model.                                                    *)

\* descriptors a process may hold (the table is 0 .. NumFds-1)
NumFds == 6
\* longest command text, in vocabulary words, of the one-line sessions
MaxWords == 5
\* longest command text of the descriptor sessions
MaxWordsFd == 6
\* most lines of a multi-line session
MaxLines == 3
\* the fork() calls of a session of which one may fail are the first
\* MaxForkFail
MaxForkFail == 4
\* longest command text of the sessions that mix every forking construct
MaxWordsSt == 4

-----------------------------------------------------------------------------
(* Text.                                                                   *)

\* isspace(), for the characters the model's texts use
IsSpace(c) == c \in {" ", "\t"}

\* isdigit()
IsDigit(c) == c \in {"0", "1", "2", "3", "4", "5", "6", "7", "8", "9"}

DigitVal(c) ==
    CASE c = "0" -> 0 [] c = "1" -> 1 [] c = "2" -> 2 [] c = "3" -> 3
      [] c = "4" -> 4 [] c = "5" -> 5 [] c = "6" -> 6 [] c = "7" -> 7
      [] c = "8" -> 8 [] c = "9" -> 9

\* the text from position i to the end (a pointer into the buffer)
From(s, i) == SubSeq(s, i, Len(s))

\* the text before position i (the buffer cut by a '\0' written at i)
Upto(s, i) == SubSeq(s, 1, i - 1)

RECURSIVE SkipLeading(_)
SkipLeading(s) ==
    IF s # <<>> /\ IsSpace(Head(s)) THEN SkipLeading(Tail(s)) ELSE s

RECURSIVE StripTrailing(_)
StripTrailing(s) ==
    IF Len(s) > 1 /\ IsSpace(s[Len(s)])
    THEN StripTrailing(SubSeq(s, 1, Len(s) - 1))
    ELSE s

trim_whitespace(s) ==
    LET t == SkipLeading(s) IN IF t = <<>> THEN t ELSE StripTrailing(t)

RECURSIVE TokenLen(_, _)
TokenLen(s, n) ==
    IF n < Len(s) /\ ~IsSpace(s[n + 1]) THEN TokenLen(s, n + 1) ELSE n

\* strtok_r(.., " \t", ..) in a loop: the tokens between runs of space/tab
RECURSIVE parse_command(_)
parse_command(s) ==
    LET t == SkipLeading(s) IN
    IF t = <<>> THEN <<>>
    ELSE LET n == TokenLen(t, 0) IN
         <<SubSeq(t, 1, n)>> \o parse_command(From(t, n + 1))

RECURSIVE Flatten(_)
Flatten(ws) == IF ws = <<>> THEN <<>> ELSE Head(ws) \o Flatten(Tail(ws))

RECURSIVE JoinArgs(_)
JoinArgs(argv) ==
    IF argv = <<>> THEN <<>>
    ELSE IF Len(argv) = 1 THEN argv[1]
    ELSE argv[1] \o <<" ">> \o JoinArgs(Tail(argv))

-----------------------------------------------------------------------------
(* The four operator scans of execute_chain.  Each returns the position of *)
(* the operator it splits on, or 0.                                        *)

\* first ';' at parenthesis depth 0, scanning forward, depth clamped at 0
RECURSIVE SeqScan(_, _, _)
SeqScan(c, i, lvl) ==
    IF i > Len(c) THEN 0
    ELSE IF c[i] = "(" THEN SeqScan(c, i + 1, lvl + 1)
    ELSE IF c[i] = ")" THEN SeqScan(c, i + 1, IF lvl > 0 THEN lvl - 1 ELSE lvl)
    ELSE IF c[i] = ";" /\ lvl = 0 THEN i
    ELSE SeqScan(c, i + 1, lvl)

IsAndAt(c, i) == i + 1 <= Len(c) /\ c[i] = "&" /\ c[i + 1] = "&"
IsOrAt(c, i) == i + 1 <= Len(c) /\ c[i] = "|" /\ c[i + 1] = "|"

\* first "&&" or "||" at depth 0, scanning forward, depth clamped at 0
RECURSIVE CondScan(_, _, _)
CondScan(c, i, lvl) ==
    IF i > Len(c) THEN 0
    ELSE IF c[i] = "(" THEN CondScan(c, i + 1, lvl + 1)
    ELSE IF c[i] = ")" THEN CondScan(c, i + 1, IF lvl > 0 THEN lvl - 1 ELSE lvl)
    ELSE IF lvl = 0 /\ (IsAndAt(c, i) \/ IsOrAt(c, i)) THEN i
    ELSE CondScan(c, i + 1, lvl)

\* last single '|' at level 0, scanning backward; the level is not clamped
RECURSIVE PipeScan(_, _, _)
PipeScan(c, i, lvl) ==
    IF i < 1 THEN 0
    ELSE IF c[i] = ")" THEN PipeScan(c, i - 1, lvl + 1)
    ELSE IF c[i] = "(" THEN PipeScan(c, i - 1, lvl - 1)
    ELSE IF c[i] = "|" /\ lvl = 0
         THEN IF i # 1 /\ c[i - 1] = "|" THEN PipeScan(c, i - 2, lvl) ELSE i
    ELSE PipeScan(c, i - 1, lvl)

\* last '<' or '>' at level 0, scanning backward; the level is not clamped
RECURSIVE RedirScan(_, _, _)
RedirScan(c, i, lvl) ==
    IF i < 1 THEN 0
    ELSE IF c[i] = ")" THEN RedirScan(c, i - 1, lvl + 1)
    ELSE IF c[i] = "(" THEN RedirScan(c, i - 1, lvl - 1)
    ELSE IF lvl # 0 THEN RedirScan(c, i - 1, lvl)
    ELSE IF c[i] = ">" \/ c[i] = "<" THEN i
    ELSE RedirScan(c, i - 1, lvl)

RECURSIVE NumStart(_, _)
NumStart(c, i) == IF i > 1 /\ IsDigit(c[i - 1]) THEN NumStart(c, i - 1) ELSE i

RECURSIVE DecVal(_)
DecVal(ds) ==
    IF ds = <<>> THEN 0
    ELSE DecVal(SubSeq(ds, 1, Len(ds) - 1)) * 10 + DigitVal(ds[Len(ds)])

\* atoi() of a run of digits; a run too long for an int stands for a number
\* that names no descriptor
Atoi(ds) == IF Len(ds) > 9 THEN 2147483647 ELSE DecVal(ds)

\* the redirection operator whose last character is at position i
RedirOpStart(c, i) ==
    IF i > 1 /\ c[i] = ">" /\ (c[i - 1] = ">" \/ c[i - 1] = "<") THEN i - 1 ELSE i

RedirFlags(c, i) ==
    IF c[i] = "<" THEN {"O_RDONLY"}
    ELSE IF i > 1 /\ c[i - 1] = ">" THEN {"O_WRONLY", "O_CREAT", "O_APPEND"}
    ELSE IF i > 1 /\ c[i - 1] = "<" THEN {"O_RDWR", "O_CREAT"}
    ELSE {"O_WRONLY", "O_CREAT", "O_TRUNC"}

RedirDefaultFd(c, i) ==
    IF c[i] = "<" THEN 0
    ELSE IF i > 1 /\ c[i - 1] = ">" THEN 1
    ELSE IF i > 1 /\ c[i - 1] = "<" THEN 0
    ELSE 1

\* a descriptor number is taken when digits end right before the operator
\* and start the text or follow a space, and are fewer than 15
RedirNumTaken(c, op_start, num_start) ==
    /\ op_start > 1
    /\ IsDigit(c[op_start - 1])
    /\ (num_start = 1) \/ IsSpace(c[num_start - 1])
    /\ (op_start - num_start) < 15

RedirFields(c, i, op_start, num_start) ==
    [flags |-> RedirFlags(c, i),
     dest_fd |-> IF RedirNumTaken(c, op_start, num_start)
                 THEN Atoi(SubSeq(c, num_start, op_start - 1))
                 ELSE RedirDefaultFd(c, i),
     cmd |-> Upto(c, IF RedirNumTaken(c, op_start, num_start)
                     THEN num_start ELSE op_start),
     file |-> trim_whitespace(From(c, i + 1))]

\* its flags, its resolved descriptor, the command text before it and its
\* target
RedirParse(c, i) ==
    RedirFields(c, i, RedirOpStart(c, i), NumStart(c, RedirOpStart(c, i)))

-----------------------------------------------------------------------------
(* Descriptors.  A descriptor table maps 0 .. NumFds-1 to an open file     *)
(* description <<kind, id>> or to Closed.                                  *)

Closed == <<"closed", 0>>

FdRange == 0 .. (NumFds - 1)

IsOpen(f, n) == n \in FdRange /\ f[n] # Closed

\* the lowest free descriptor, which open() and pipe() hand out; -1 if none
LowestFree(f) ==
    IF \E n \in FdRange : f[n] = Closed
    THEN CHOOSE n \in FdRange :
             f[n] = Closed /\ \A m \in FdRange : m < n => f[m] # Closed
    ELSE -1

\* close(n): fails (EBADF), changing nothing, when n is not open
CloseFd(f, n) == IF IsOpen(f, n) THEN [f EXCEPT ![n] = Closed] ELSE f

\* dup2(old, new): fails, changing nothing, when old is not open or new is
\* out of range; dup2(n, n) changes nothing
Dup2Ok(f, old, new) == IsOpen(f, old) /\ new \in FdRange

Dup2(f, old, new) == IF Dup2Ok(f, old, new) THEN [f EXCEPT ![new] = f[old]] ELSE f

-----------------------------------------------------------------------------
(* Wait statuses and their translation.                                    *)

Exited(c) == [how |-> "exited", n |-> c]
Signaled(s) == [how |-> "signaled", n |-> s]

\* a variant that returns the wait status as the kernel encodes it
TranslateStatus_raw(ws) == IF ws.how = "exited" THEN ws.n * 256 ELSE ws.n

\* run, src/pish.c:134-140, and run_subshell, src/pish.c:229-236
TranslateStatus(ws) ==
    IF ws.how = "exited" THEN ws.n
    ELSE IF ws.how = "signaled" THEN 128 + ws.n
    ELSE 1

\* run_redirect, src/pish.c:196-201, and run_pipe, src/pish.c:299-302
ExitedOrOne(ws) == IF ws.how = "exited" THEN ws.n ELSE 1

-----------------------------------------------------------------------------
(* The environment: the programs execvp() finds and the directories        *)
(* chdir() accepts.                                                        *)

\* the programs on the search path: "true" exits 0, "false" exits 1, "x"
\* exits 3 and "k" kills itself with signal 9
TrueCmd == <<"t", "r", "u", "e">>
FalseCmd == <<"f", "a", "l", "s", "e">>

\* how the child of run ends: as the program does, or, when execvp() does
\* not find the name, by exit(127)  (src/pish.c:123-125)
ProgramStatus(name) ==
    IF name = TrueCmd THEN Exited(0)
    ELSE IF name = FalseCmd THEN Exited(1)
    ELSE IF name = <<"x">> THEN Exited(3)
    ELSE IF name = <<"k">> THEN Signaled(9)
    ELSE Exited(127)

Dirs == {<<"/">>, <<"/", "a">>, <<"/", "b">>}

-----------------------------------------------------------------------------
(* Process state, shared state, results and events.                        *)
(*   p: [pid, cwd, prevDir, les, fds]     one process                      *)
(*   w: [log, nproc, nfork, nobj, history, hfile, files, env]   shared     *)

Ev(kind, p, text, n, ref) ==
    [ev |-> kind, p |-> p, text |-> text, n |-> n, ref |-> ref]

Log(w, e) == [w EXCEPT !.log = Append(@, e)]

\* execute_chain returned st to its caller
Ret(st, p, w) == [term |-> "ret", st |-> st, ws |-> Exited(0), p |-> p, w |-> w]

\* process p ended with wait status ws
Ends(p, ws, w) == Log(w, Ev("exit", p, <<ws.how>>, ws.n, 0))

\* the process ended inside the call (exit(), or a replaced process image)
Gone(ws, p, w) ==
    [term |-> "exit", st |-> 0, ws |-> ws, p |-> p, w |-> Ends(p, ws, w)]

\* how a forked child that evaluated a chain ends: exit(status), or earlier
ChildStatus(r) == IF r.term = "ret" THEN Exited(r.st % 256) ELSE r.ws

\* the shared state once that child has ended
Ended(r) == IF r.term = "ret" THEN Ends(r.p, ChildStatus(r), r.w) ELSE r.w

\* fork(): the call fails when the environment says so
ForkFails(w) == w.nfork + 1 = w.env.fork_fail

\* the child of a fork: a copy of the parent with a new pid
ForkChild(p, w) == [p EXCEPT !.pid = w.nproc + 1]

\* the shared state after fork(): the call is logged in the parent, with the
\* child's pid (or -1)
Forked(p, w, what) ==
    LET fails == ForkFails(w) IN
    Log([w EXCEPT !.nfork = @ + 1,
                  !.nproc = IF fails THEN @ ELSE @ + 1],
        Ev("fork", p, <<what>>, IF fails THEN -1 ELSE w.nproc + 1, 0))

\* waitpid(): what the parent reads in status; when the call fails and the
\* code does not look, an uninitialised int
Waited(p, w, child) ==
    Log(w, Ev("wait", p, <<>>, child, IF w.env.wait_fail THEN 0 ELSE 1))

-----------------------------------------------------------------------------
(* run: fork, exec an external program, wait, translate.                   *)

\* the parent of run after the fork: wait, then store the status
run_parent(p, child, st, w) ==
    Ret(st, [p EXCEPT !.les = st],
        Log(Waited(p, w, child), Ev("run", p, <<>>, st, child)))

run(argv, p, w) ==
    IF argv = <<>> THEN Ret(0, [p EXCEPT !.les = 0], w)
    ELSE IF ForkFails(w)
         THEN Ret(1, [p EXCEPT !.les = 1], Forked(p, w, "run"))
    ELSE run_parent(p, ForkChild(p, w).pid,
                    IF w.env.wait_fail THEN 1
                    ELSE TranslateStatus(ProgramStatus(argv[1])),
                    Ends(ForkChild(p, w), ProgramStatus(argv[1]),
                         Log(Forked(p, w, "run"),
                             Ev("exec", ForkChild(p, w), JoinArgs(argv), 0, 0))))

-----------------------------------------------------------------------------
(* The builtins of execute_chain.                                          *)

CD == <<"c", "d">>
EXIT == <<"e", "x", "i", "t">>
HISTORY == <<"h", "i", "s", "t", "o", "r", "y">>
EXEC == <<"e", "x", "e", "c">>

\* chdir(): the directories of the model exist, nothing else does
ChdirOk(path) == path \in Dirs

\* the builtin ended in process state q with status st
cd_done(st, q, arg, w) == Ret(st, q, Log(w, Ev("cd", q, arg, st, 0)))

builtin_cd(argv, p, w) ==
    IF Len(argv) # 2 THEN cd_done(1, p, <<>>, w)
    ELSE IF argv[2] = <<"-">>
         THEN IF p.prevDir = <<>>
              THEN Ret(0, p, Log(w, Ev("print", p, p.cwd, 1, 0)))
              ELSE IF ChdirOk(p.prevDir)
                   THEN cd_done(0, [p EXCEPT !.cwd = p.prevDir, !.prevDir = p.cwd],
                                argv[2], w)
                   ELSE cd_done(1, p, argv[2], w)
    ELSE IF ChdirOk(argv[2])
         THEN cd_done(0, [p EXCEPT !.prevDir = p.cwd, !.cwd = argv[2]], argv[2], w)
         ELSE cd_done(1, [p EXCEPT !.prevDir = p.cwd], argv[2], w)

RECURSIVE LeadingDigits(_, _)
LeadingDigits(s, n) ==
    IF n < Len(s) /\ IsDigit(s[n + 1]) THEN LeadingDigits(s, n + 1) ELSE n

StrtolSigned(tok) == tok # <<>> /\ tok[1] \in {"-", "+"}

StrtolBody(tok) == IF StrtolSigned(tok) THEN Tail(tok) ELSE tok

\* strtol(tok, &endptr, 10) read digits and nothing follows them
StrtolOk(tok) ==
    /\ LeadingDigits(StrtolBody(tok), 0) > 0
    /\ LeadingDigits(StrtolBody(tok), 0) = Len(StrtolBody(tok))

StrtolVal(tok) ==
    IF tok[1] = "-" THEN 0 - DecVal(StrtolBody(tok)) ELSE DecVal(StrtolBody(tok))

\* a variant that hands the parsed value to exit() as it is
MaskByte_whole(v) == v

\* (int)status_val & 255
MaskByte(v) == v % 256

\* the exit builtin calls exit(code)
exit_called(code, argv, p, w) ==
    Gone(Exited(code), p, Log(w, Ev("exit_builtin", p, JoinArgs(argv), code, 0)))

builtin_exit(argv, p, w) ==
    IF Len(argv) > 2 THEN Ret(1, p, w)
    ELSE IF Len(argv) = 2
         THEN IF StrtolOk(argv[2])
              THEN exit_called(MaskByte(StrtolVal(argv[2])), argv, p, w)
              ELSE Ret(2, p, w)
    ELSE exit_called(p.les % 256, argv, p, w)

\* print_history does not check fopen(): without a history file fgets() is
\* handed a null stream, and the process dies of the invalid access
\* (signal 11)
builtin_history(argv, p, w) ==
    IF Len(argv) = 1
    THEN IF w.hfile
         THEN Ret(0, p, Log(w, Ev("print", p, <<>>, Len(w.history), 0)))
         ELSE Gone(Signaled(11), p, w)
    ELSE IF Len(argv) = 2 /\ argv[2] = <<"-", "c">>
         THEN Ret(0, p, [w EXCEPT !.history = <<>>, !.hfile = TRUE])
    ELSE Ret(1, p, w)

builtin_exec(argv, p, w) ==
    IF Len(argv) < 2 THEN Ret(1, p, w)
    ELSE Gone(ProgramStatus(argv[2]), p,
              Log(w, Ev("exec", p, JoinArgs(Tail(argv)), 0, 0)))

\* the dispatch on argv[0]
dispatch(argv, p, w) ==
    IF argv = <<>> THEN Ret(0, p, w)
    ELSE IF argv[1] = CD THEN builtin_cd(argv, p, w)
    ELSE IF argv[1] = EXIT THEN builtin_exit(argv, p, w)
    ELSE IF argv[1] = HISTORY THEN builtin_history(argv, p, w)
    ELSE IF argv[1] = EXEC THEN builtin_exec(argv, p, w)
    ELSE run(argv, p, w)

\* the last branch of execute_chain: tokenize and dispatch
atomic_command(trimmed, p, w) == dispatch(parse_command(trimmed), p, w)

-----------------------------------------------------------------------------
(* execute_chain and the constructs that re-enter it.                      *)

RECURSIVE execute_chain(_, _, _)

\* open(file, flags, 0644) succeeds on an existing file, or creates it
OpenOk(file, flags, p, w) ==
    /\ file # <<>>
    /\ (file \in w.files) \/ ("O_CREAT" \in flags)
    /\ (file \notin Dirs) \/ (flags = {"O_RDONLY"})
    /\ LowestFree(p.fds) # -1

\* the process after open() returned fd for a new open file description
Opened(p, fd, id) == [p EXCEPT !.fds[fd] = <<"file", id>>]

\* a variant that leaves the opened descriptor open
RedirectFds_kept(f, fd, dest_fd) == Dup2(f, fd, dest_fd)

\* the redirecting child after open() returned fd: dup2 onto dest_fd, and
\* close fd when it is another descriptor
RedirectFds(f, fd, dest_fd) ==
    IF fd # dest_fd THEN CloseFd(Dup2(f, fd, dest_fd), fd) ELSE Dup2(f, fd, dest_fd)

\* the target without a leading '&'
RedirectTarget(file) == IF file # <<>> /\ file[1] = "&" THEN Tail(file) ELSE file

\* what the parent of a redirection makes of the child's wait status
redirect_status(ws) == ExitedOrOne(ws)

\* src/pish.c:180-190
redirect_dup(command_str, dest_fd, fd, opened, w) ==
    IF ~Dup2Ok(opened.fds, fd, dest_fd) THEN Gone(Exited(1), opened, w)
    ELSE execute_chain(command_str,
                       [opened EXCEPT !.fds = RedirectFds(@, fd, dest_fd)], w)

\* a variant that opens the target without its leading '&'
redirect_open_stripped(command_str, file, flags, dest_fd, child, w, fd) ==
    IF ~OpenOk(RedirectTarget(file), flags, child, w)
    THEN Gone(Exited(1), child,
              Log(w, Ev("open", child, RedirectTarget(file), -1, dest_fd)))
    ELSE redirect_dup(command_str, dest_fd, fd, Opened(child, fd, w.nobj + 1),
             Log([w EXCEPT !.nobj = @ + 1, !.files = @ \cup {RedirectTarget(file)}],
                 Ev("open", Opened(child, fd, w.nobj + 1), RedirectTarget(file),
                    fd, dest_fd)))

\* src/pish.c:174-178
redirect_open(command_str, file, flags, dest_fd, child, w, fd) ==
    IF ~OpenOk(file, flags, child, w)
    THEN Gone(Exited(1), child, Log(w, Ev("open", child, file, -1, dest_fd)))
    ELSE redirect_dup(command_str, dest_fd, fd, Opened(child, fd, w.nobj + 1),
             Log([w EXCEPT !.nobj = @ + 1, !.files = @ \cup {file}],
                 Ev("open", Opened(child, fd, w.nobj + 1), file, fd, dest_fd)))

\* src/pish.c:164-171
redirect_close(command_str, dest_fd, child, w) ==
    IF IsOpen(child.fds, dest_fd)
    THEN execute_chain(command_str, [child EXCEPT !.fds = CloseFd(@, dest_fd)],
                       Log(w, Ev("close", child, <<>>, dest_fd, 0)))
    ELSE Gone(Exited(1), child, w)

redirect_child(command_str, file, flags, dest_fd, child, w) ==
    IF RedirectTarget(file) = <<"-">>
    THEN redirect_close(command_str, dest_fd, child, w)
    ELSE redirect_open(command_str, file, flags, dest_fd, child, w,
                       LowestFree(child.fds))

\* a variant in which the redirected command's directories come back to the
\* caller
redirect_parent_shared(p, child, r) ==
    Ret(redirect_status(IF r.w.env.wait_fail THEN r.w.env.garbage
                        ELSE ChildStatus(r)),
        [p EXCEPT !.cwd = r.p.cwd, !.prevDir = r.p.prevDir],
        Waited(p, Ended(r), child))

\* src/pish.c:192-201: waitpid's result is not checked
redirect_parent(p, child, r) ==
    Ret(redirect_status(IF r.w.env.wait_fail THEN r.w.env.garbage
                        ELSE ChildStatus(r)),
        p, Waited(p, Ended(r), child))

run_redirect(command_str, file, flags, dest_fd, p, w) ==
    IF ForkFails(w) THEN Ret(1, p, Forked(p, w, "redirect"))
    ELSE redirect_parent(p, ForkChild(p, w).pid,
             redirect_child(command_str, file, flags, dest_fd,
                            ForkChild(p, w), Forked(p, w, "redirect")))

\* a variant in which the subshell's directories come back to the caller
subshell_parent_shared(p, child, r) ==
    Ret(IF r.w.env.wait_fail THEN 1 ELSE TranslateStatus(ChildStatus(r)),
        [p EXCEPT !.cwd = r.p.cwd, !.prevDir = r.p.prevDir],
        Waited(p, Ended(r), child))

\* src/pish.c:223-236
subshell_parent(p, child, r) ==
    Ret(IF r.w.env.wait_fail THEN 1 ELSE TranslateStatus(ChildStatus(r)),
        p, Waited(p, Ended(r), child))

run_subshell(command_str, p, w) ==
    IF ForkFails(w) THEN Ret(1, p, Forked(p, w, "subshell"))
    ELSE subshell_parent(p, ForkChild(p, w).pid,
             execute_chain(command_str, ForkChild(p, w), Forked(p, w, "subshell")))

\* pipe(): the two lowest free descriptors, or failure
PipeRead(f) == LowestFree(f)

PipeWrite(f) ==
    IF PipeRead(f) = -1 THEN -1
    ELSE LowestFree([f EXCEPT ![PipeRead(f)] = <<"pipe_r", 0>>])

\* the descriptor table after pipe() made pipe number id at rd and wr
PipeFds(f, rd, wr, id) ==
    [f EXCEPT ![rd] = <<"pipe_r", id>>, ![wr] = <<"pipe_w", id>>]

\* the left child of a pipe: close(p[0]); dup2(p[1], 1); close(p[1])
PipeLeftFds(f, rd, wr) == CloseFd(Dup2(CloseFd(f, rd), wr, 1), wr)

\* the right child of a pipe: close(p[1]); dup2(p[0], 0); close(p[0])
PipeRightFds(f, rd, wr) == CloseFd(Dup2(CloseFd(f, wr), rd, 0), rd)

\* a variant that returns the left child's status
pipe_status_left(left_ws, right_ws) == ExitedOrOne(left_ws)

\* the left child's status is not read; the right child's is translated
pipe_status(left_ws, right_ws) == ExitedOrOne(right_ws)

\* a variant in which the parent waits for the children before it closes
\* its pipe ends
pipe_parent_waits_first(pc, rd, wr, lpid, rpid, lr, rr) ==
    Ret(pipe_status(IF rr.w.env.wait_fail THEN rr.w.env.garbage ELSE ChildStatus(lr),
                    IF rr.w.env.wait_fail THEN rr.w.env.garbage ELSE ChildStatus(rr)),
        pc,
        Log(Waited(pc, Waited(pc, Ended(rr), lpid), rpid),
            Ev("close", pc, <<>>, rd, wr)))

\* src/pish.c:292-302: close both ends, wait for both, return
pipe_parent(pc, rd, wr, lpid, rpid, lr, rr) ==
    Ret(pipe_status(IF rr.w.env.wait_fail THEN rr.w.env.garbage ELSE ChildStatus(lr),
                    IF rr.w.env.wait_fail THEN rr.w.env.garbage ELSE ChildStatus(rr)),
        pc,
        Waited(pc, Waited(pc, Log(Ended(rr), Ev("close", pc, <<>>, rd, wr)), lpid),
               rpid))

\* src/pish.c:275-291: the second fork and the right child
pipe_right(right_cmd, pp, rd, wr, lpid, lr, w) ==
    IF ForkFails(w) THEN Ret(1, pp, Forked(pp, w, "right"))
    ELSE pipe_parent([pp EXCEPT !.fds = CloseFd(CloseFd(@, rd), wr)], rd, wr,
             lpid, ForkChild(pp, w).pid, lr,
             execute_chain(right_cmd,
                 [ForkChild(pp, w) EXCEPT !.fds = PipeRightFds(@, rd, wr)],
                 Forked(pp, w, "right")))

\* the left child has run: the parent goes on in the world it left
pipe_left_done(right_cmd, pp, rd, wr, lpid, lr) ==
    pipe_right(right_cmd, pp, rd, wr, lpid, lr, Ended(lr))

\* src/pish.c:257-273: the first fork and the left child
pipe_left(left_cmd, right_cmd, pp, rd, wr, w) ==
    IF ForkFails(w) THEN Ret(1, pp, Forked(pp, w, "left"))
    ELSE pipe_left_done(right_cmd, pp, rd, wr, ForkChild(pp, w).pid,
             execute_chain(left_cmd,
                 [ForkChild(pp, w) EXCEPT !.fds = PipeLeftFds(@, rd, wr)],
                 Forked(pp, w, "left")))

\* src/pish.c:252-255: the pipe is made in process pp
pipe_made(left_cmd, right_cmd, pp, rd, wr, w) ==
    pipe_left(left_cmd, right_cmd, pp, rd, wr,
              Log([w EXCEPT !.nobj = @ + 1], Ev("pipe", pp, <<>>, rd, wr)))

run_pipe(left_cmd, right_cmd, p, w) ==
    IF PipeWrite(p.fds) = -1 THEN Ret(1, p, Log(w, Ev("pipe", p, <<>>, -1, -1)))
    ELSE pipe_made(left_cmd, right_cmd,
             [p EXCEPT !.fds = PipeFds(@, PipeRead(p.fds), PipeWrite(p.fds),
                                       w.nobj + 1)],
             PipeRead(p.fds), PipeWrite(p.fds), w)

\* a variant that drops B, to try the sequence property against
sequence_right_dropped(c, i, l) == l

\* A ; B once A is done  (src/pish.c:328-329)
sequence_right(c, i, l) ==
    IF l.term = "exit" THEN l ELSE execute_chain(From(c, i + 1), l.p, l.w)

exec_sequence(c, i, p, w) == sequence_right(c, i, execute_chain(Upto(c, i), p, w))

\* a variant that runs B whatever A returned, to try the conditional
\* property against
conditional_right_always(c, i, l) ==
    IF l.term = "exit" THEN l ELSE execute_chain(From(c, i + 2), l.p, l.w)

\* A && B, A || B once A is done  (src/pish.c:348-364)
conditional_right(c, i, l) ==
    IF l.term = "exit" THEN l
    ELSE IF IsAndAt(c, i)
         THEN IF l.st = 0 THEN execute_chain(From(c, i + 2), l.p, l.w) ELSE l
    ELSE IF l.st # 0 THEN execute_chain(From(c, i + 2), l.p, l.w) ELSE l

exec_conditional(c, i, p, w) ==
    conditional_right(c, i, execute_chain(Upto(c, i), p, w))

\* a variant that keeps zero and non-zero apart but does not swap them
negate_kept(st) == IF st = 0 THEN 0 ELSE 1

\* ! R once R is done  (src/pish.c:475-479)
negate(st) == IF st = 0 THEN 1 ELSE 0

negated(r) == IF r.term = "exit" THEN r ELSE [r EXCEPT !.st = negate(@)]

\* a variant in which a run of leading '!' flips the status once
RECURSIVE StripBangs(_)
StripBangs(s) == IF s # <<>> /\ s[1] = "!" THEN StripBangs(Tail(s)) ELSE s

exec_negation_run(trimmed, p, w) == negated(execute_chain(StripBangs(trimmed), p, w))

\* a variant that blanks the '!' instead of stepping over it
exec_negation_blanked(trimmed, p, w) ==
    negated(execute_chain(<<" ">> \o Tail(trimmed), p, w))

exec_negation(trimmed, p, w) == negated(execute_chain(Tail(trimmed), p, w))

\* ( ... )  (src/pish.c:483-494)
exec_parenthesis(trimmed, p, w) ==
    IF trimmed[Len(trimmed)] = ")"
    THEN run_subshell(SubSeq(trimmed, 2, Len(trimmed) - 1), p, w)
    ELSE Ret(2, p, Log(w, Ev("syntax", p, trimmed, 2, 0)))

\* the constructs after the four scans, on the trimmed text
chain_command(trimmed, p, w) ==
    IF trimmed # <<>> /\ trimmed[1] = "!" THEN exec_negation(trimmed, p, w)
    ELSE IF trimmed # <<>> /\ trimmed[1] = "(" THEN exec_parenthesis(trimmed, p, w)
    ELSE IF trimmed = <<>> THEN Ret(0, p, w)
    ELSE atomic_command(trimmed, p, w)

chain_redirect(o, p, w) == run_redirect(o.cmd, o.file, o.flags, o.dest_fd, p, w)

\* a variant that looks for a redirection before it looks for a pipe
chain_split_redirect_first(c, s, a, b, r, p, w) ==
    IF s # 0 THEN exec_sequence(c, s, p, w)
    ELSE IF a # 0 THEN exec_conditional(c, a, p, w)
    ELSE IF r # 0 THEN chain_redirect(RedirParse(c, r), p, w)
    ELSE IF b # 0 THEN run_pipe(Upto(c, b), From(c, b + 1), p, w)
    ELSE chain_command(trim_whitespace(c), p, w)

\* the body of execute_chain: the first construct that applies, given the
\* positions s, a, b, r the four scans found
chain_split(c, s, a, b, r, p, w) ==
    IF s # 0 THEN exec_sequence(c, s, p, w)
    ELSE IF a # 0 THEN exec_conditional(c, a, p, w)
    ELSE IF b # 0 THEN run_pipe(Upto(c, b), From(c, b + 1), p, w)
    ELSE IF r # 0 THEN chain_redirect(RedirParse(c, r), p, w)
    ELSE chain_command(trim_whitespace(c), p, w)

chain_body(c, p, w) ==
    chain_split(c, SeqScan(c, 1, 0), CondScan(c, 1, 0), PipeScan(c, Len(c), 0),
                RedirScan(c, Len(c), 0), p, w)

\* the return of a call of execute_chain, logged with the call's entry
chain_leave(c, id, r) ==
    IF r.term = "ret" THEN [r EXCEPT !.w = Log(@, Ev("leave", r.p, c, r.st, id))]
    ELSE r

\* a call of execute_chain: logged on entry and, when it returns, on return
execute_chain(c, p, w) ==
    chain_leave(c, Len(w.log) + 1, chain_body(c, p, Log(w, Ev("enter", p, c, 0, 0))))

-----------------------------------------------------------------------------
(* pish: the read loop.                                                    *)

\* check_for_continuation on the line and its trimmed copy t: 0 none,
\* 1 trailing backslash, 2 "&&" or "||", 3 a single '|', 4 a redirection
continuation_type(line, t) ==
    IF Len(line) = 0 THEN 0
    ELSE IF Len(t) > 0 /\ line[Len(t)] = "\\" THEN 1
    ELSE IF Len(t) >= 2 /\ (IsAndAt(t, Len(t) - 1) \/ IsOrAt(t, Len(t) - 1)) THEN 2
    ELSE IF Len(t) >= 1 /\ t[Len(t)] = "|" /\ (Len(t) < 2 \/ t[Len(t) - 1] # "|")
         THEN 3
    ELSE IF Len(t) > 0 /\ (t[Len(t)] = ">" \/ t[Len(t)] = "<") THEN 4
    ELSE 0

check_for_continuation(line) == continuation_type(line, trim_whitespace(line))

\* the text check_for_continuation leaves in the buffer: a trailing
\* backslash is overwritten by '\0'
AfterCheck(line) ==
    IF check_for_continuation(line) = 1
    THEN Upto(line, Len(trim_whitespace(line)))
    ELSE line

\* full_command after the next line is read: the first line, or the line
\* appended after no separator (ct = 1) or a space
Joined(started, full, ct, line) ==
    IF ~started THEN trim_whitespace(line)
    ELSE full \o (IF ct = 1 THEN <<>> ELSE <<" ">>) \o trim_whitespace(line)

\* the do-while loop of pish: lines are read and joined until one does not
\* ask for a continuation, or until the input ends
\*   started: full_command is not NULL;  full: full_command;  ct: the
\*   continuation type of the previous line
RECURSIVE Assemble(_, _, _, _)
RECURSIVE Assembled(_, _)
Assembled(rest, joined) ==
    IF check_for_continuation(joined) # 0
    THEN Assemble(rest, TRUE, AfterCheck(joined), check_for_continuation(joined))
    ELSE [eof |-> FALSE, started |-> TRUE, cmd |-> joined, rest |-> rest]

Assemble(lines, started, full, ct) ==
    IF lines = <<>>
    THEN [eof |-> TRUE, started |-> started, cmd |-> full, rest |-> <<>>]
    ELSE Assembled(Tail(lines), Joined(started, full, ct, Head(lines)))

\* a variant that appends nothing
add_history_none(hist, argv) == hist

\* add_history: the tokens of the command joined by single spaces
add_history(hist, argv) == IF argv # <<>> THEN Append(hist, JoinArgs(argv)) ELSE hist

\* the status of the last external command the shell process itself ran
\* and waited for among the first n events of a log, or else `before`
RECURSIVE LastRun(_, _, _)
LastRun(events, n, before) ==
    IF n = 0 THEN before
    ELSE IF events[n].ev = "run" /\ events[n].p.pid = 1 THEN events[n].n
    ELSE LastRun(events, n - 1, before)

ShellProcess ==
    [pid |-> 1, cwd |-> cwd, prevDir |-> prevDir, les |-> last_exit_status, fds |-> fds]

World(hist, exists) ==
    [log |-> <<>>, nproc |-> 1, nfork |-> 0, nobj |-> 0, history |-> hist,
     hfile |-> exists, files |-> files, env |-> env]

\* the shell's variables after execute_chain(c) ended with result r; when
\* the process ended inside the call it ended as r.ws, else it goes on, or
\* ends as `ending`
Adopt(c, r, goes_on, ending) ==
    /\ chain' = c
    /\ returned' = (r.term = "ret")
    /\ status' = r.st
    /\ log' = r.w.log
    /\ cwd' = r.p.cwd
    /\ prevDir' = r.p.prevDir
    /\ fds' = r.p.fds
    /\ history' = r.w.history
    /\ history_exists' = r.w.hfile
    /\ files' = r.w.files
    /\ last_exit_status' = IF r.term = "ret" THEN r.st ELSE r.p.les
    /\ running' = (goes_on /\ r.term = "ret")
    /\ exit_ws' = IF r.term = "ret" THEN ending ELSE r.ws
    /\ last_external' = LastRun(r.w.log, Len(r.w.log), last_external)

\* src/pish.c:742-775: a complete command was read
run_line(a) ==
    /\ ~a.eof
    /\ input' = a.rest
    /\ IF Len(a.cmd) > 0
       THEN Adopt(a.cmd,
                  execute_chain(a.cmd, ShellProcess,
                      World(IF script_mode = 0
                            THEN add_history(history, parse_command(a.cmd))
                            ELSE history,
                            history_exists
                              \/ (script_mode = 0 /\ parse_command(a.cmd) # <<>>))),
                  TRUE, exit_ws)
       ELSE /\ last_exit_status' = 0
            /\ chain' = a.cmd
            /\ returned' = FALSE
            /\ status' = 0
            /\ log' = <<>>
            /\ UNCHANGED <<cwd, prevDir, fds, history, history_exists, files,
                           running, exit_ws, last_external>>

\* one iteration of the while loop of pish that reads a complete command
RunLine ==
    /\ running
    /\ input # <<>>
    /\ run_line(Assemble(input, FALSE, <<>>, 0))
    /\ UNCHANGED <<script_mode, env>>

\* a variant in which main returns the status pish returned
end_of_input_status(a) ==
    /\ a.eof
    /\ input' = <<>>
    /\ IF a.started
       THEN Adopt(a.cmd, execute_chain(a.cmd, ShellProcess,
                                World(history, history_exists)),
                  FALSE,
                  Exited(execute_chain(a.cmd, ShellProcess,
                                       World(history, history_exists)).st))
       ELSE /\ exit_ws' = Exited(last_exit_status)
            /\ running' = FALSE
            /\ UNCHANGED <<last_exit_status, chain, returned, status, log,
                           cwd, prevDir, fds, history, history_exists, files,
                           last_external>>

\* src/pish.c:681-691 and 784-803: fgets() returned NULL
end_of_input(a) ==
    /\ a.eof
    /\ input' = <<>>
    /\ IF a.started
       THEN Adopt(a.cmd, execute_chain(a.cmd, ShellProcess,
                                World(history, history_exists)),
                  FALSE, Exited(0))
       ELSE /\ exit_ws' = Exited(0)
            /\ running' = FALSE
            /\ UNCHANGED <<last_exit_status, chain, returned, status, log,
                           cwd, prevDir, fds, history, history_exists, files,
                           last_external>>

\* the input ends: a command still being assembled is executed, pish
\* returns and main returns EXIT_SUCCESS
EndOfInput ==
    /\ running
    /\ end_of_input(Assemble(input, FALSE, <<>>, 0))
    /\ UNCHANGED <<script_mode, env>>

Next == RunLine \/ EndOfInput

-----------------------------------------------------------------------------
(* Sessions: what the input holds and what the operating system does.      *)

\* every text of at most n words of the vocabulary V
Texts(V, n) == {Flatten(ws) : ws \in UNION {[1 .. k -> V] : k \in 0 .. n}}

\* every input of at most n lines of L
Inputs(L, n) == UNION {[1 .. k -> L] : k \in 0 .. n}

\* every call succeeds
Calm ==
    [fork_fail |-> 0, wait_fail |-> FALSE, garbage |-> Exited(0),
     history_file |-> TRUE]

InitShell(inputs, modes, envs) ==
    /\ input \in inputs
    /\ script_mode \in modes
    /\ env \in envs
    /\ last_exit_status = 0
    /\ prevDir = <<>>
    /\ cwd = <<"/">>
    /\ fds = [n \in FdRange |->
                 IF n < 3 THEN <<"std", n>>
                 ELSE IF n = 3 /\ script_mode = 1 THEN <<"script", 0>>
                 ELSE Closed]
    /\ history = <<>>
    /\ history_exists = env.history_file
    /\ files = {}
    /\ running = TRUE
    /\ exit_ws = Exited(0)
    /\ chain = <<>>
    /\ returned = FALSE
    /\ status = 0
    /\ log = <<>>
    /\ last_external = -1

\* one command line of control operators over the programs t and f
CtlWords ==
    {TrueCmd, FalseCmd, <<";">>, <<"&", "&">>, <<"|", "|">>, <<"!">>, EXIT}

InitCtl == InitShell({<<t>> : t \in Texts(CtlWords, MaxWords)}, {1}, {Calm})

SpecCtl == InitCtl /\ [][Next]_vars

\* one command line of pipes, with forks and waits that may fail
PipeWords ==
    {TrueCmd, FalseCmd, <<"x">>, <<"|">>, EXEC \o <<" ", "k">>}

\* every fork succeeds or the n-th fails; every wait succeeds, or every wait
\* fails (SIGCHLD ignored: ECHILD) and an unchecked status is whatever the
\* stack held
PipeEnvs ==
    {[Calm EXCEPT !.fork_fail = n] : n \in 0 .. MaxForkFail}
      \cup {[Calm EXCEPT !.wait_fail = TRUE, !.garbage = g] :
               g \in {Exited(0), Exited(7), Signaled(9)}}

InitPipe == InitShell({<<t>> : t \in Texts(PipeWords, MaxWords)}, {1}, PipeEnvs)

SpecPipe == InitPipe /\ [][Next]_vars

\* one interactive command line of subshells, pipes and redirections
FdWords ==
    {TrueCmd, <<"(">>, <<")">>, <<"|">>, <<"<", "&", "-">>, <<" ", "2", ">", "w">>}

InitFd == InitShell({<<t>> : t \in Texts(FdWords, MaxWordsFd)}, {0}, {Calm})

SpecFd == InitFd /\ [][Next]_vars

\* the same words in shorter lines, typed or read from a script
InitRedir == InitShell({<<t>> : t \in Texts(FdWords, MaxWords)}, {0, 1}, {Calm})

SpecRedir == InitRedir /\ [][Next]_vars

\* one command line of cd commands and subshells
CdWords ==
    {<<"(">>, <<")">>, <<";">>, CD \o <<" ", "/", "a">>, CD \o <<" ", "/", "b">>,
     CD \o <<" ", "-">>}

InitCd == InitShell({<<t>> : t \in Texts(CdWords, MaxWords)}, {1}, {Calm})

SpecCd == InitCd /\ [][Next]_vars

\* a session of several lines, typed or read from a script
SessionLines ==
    {<<"x">>, <<>>, EXIT, CD \o <<" ", "/", "a">>, CD \o <<" ", "/", "z">>, TrueCmd}

InitSession == InitShell(Inputs(SessionLines, MaxLines), {0, 1}, {Calm})

SpecSession == InitSession /\ [][Next]_vars

-----------------------------------------------------------------------------
(* Reading the event log of the last call of execute_chain made by pish.   *)

\* the return of the call entered at event i, if it returned
LeaveOf(i) == {j \in DOMAIN log : log[j].ev = "leave" /\ log[j].ref = i}

\* event j is the entry of a call on `text` in the process of event i
EntersAt(j, i, text) ==
    /\ j \in DOMAIN log
    /\ log[j].ev = "enter"
    /\ log[j].text = text
    /\ log[j].p.pid = log[i].p.pid

\* event j is the return, with status st, of the call entered at event i
LeavesAt(j, i, st) ==
    /\ j \in DOMAIN log
    /\ log[j].ev = "leave"
    /\ log[j].ref = i
    /\ log[j].n = st

\* the construct execute_chain applies to a text
SplitsAtSequence(c) == SeqScan(c, 1, 0) # 0

SplitsAtConditional(c) == SeqScan(c, 1, 0) = 0 /\ CondScan(c, 1, 0) # 0

SplitsAtPipe(c) ==
    SeqScan(c, 1, 0) = 0 /\ CondScan(c, 1, 0) = 0 /\ PipeScan(c, Len(c), 0) # 0

NoPipeOrBefore(c) ==
    SeqScan(c, 1, 0) = 0 /\ CondScan(c, 1, 0) = 0 /\ PipeScan(c, Len(c), 0) = 0

SplitsAtRedirect(c) == NoPipeOrBefore(c) /\ RedirScan(c, Len(c), 0) # 0

NoOperator(c) == NoPipeOrBefore(c) /\ RedirScan(c, Len(c), 0) = 0

StartsWith(c, ch) == trim_whitespace(c) # <<>> /\ trim_whitespace(c)[1] = ch

IsNegation(c) == NoOperator(c) /\ StartsWith(c, "!")

IsSubshell(c) ==
    NoOperator(c) /\ StartsWith(c, "(")
      /\ trim_whitespace(c)[Len(trim_whitespace(c))] = ")"

-----------------------------------------------------------------------------
(* Conditional operators.                                                  *)

\* C1: in every call that splits its text at the first depth-0 "&&" or
\* "||" into A and B, A is evaluated first, in the same process; when A
\* returns, B is evaluated exactly when A's status is 0 (for "&&") or
\* non-zero (for "||"); the call returns B's status when B is evaluated, and
\* otherwise returns A's status at once, evaluating nothing to the right of
\* the operator.
C1_Conditional ==
    \A i \in DOMAIN log :
        (log[i].ev = "enter" /\ SplitsAtConditional(log[i].text)) =>
            LET c == log[i].text
                a == CondScan(c, 1, 0)
            IN  /\ EntersAt(i + 1, i, Upto(c, a))
                /\ \A j \in LeaveOf(i + 1) :
                       IF (IsAndAt(c, a) <=> (log[j].n = 0))
                       THEN /\ EntersAt(j + 1, i, From(c, a + 2))
                            /\ \A k \in LeaveOf(j + 1) : LeavesAt(k + 1, i, log[k].n)
                       ELSE LeavesAt(j + 1, i, log[j].n)

\* `false&&true||true` returned 1 and only `false` was run
C1_Witness ==
    /\ chain = FalseCmd \o <<"&", "&">> \o TrueCmd \o <<"|", "|">> \o TrueCmd
    /\ returned
    /\ status = 1
    /\ \E i \in DOMAIN log : log[i].ev = "exec"
    /\ \A i \in DOMAIN log : log[i].ev = "exec" => log[i].text = FalseCmd

-----------------------------------------------------------------------------
(* Sequences.                                                              *)

\* C2 as amended: in every call that splits its text at the first depth-0
\* ';' into A and B, A is evaluated first, in the same process; when the
\* evaluation of A returns (whatever its status), B is evaluated next, and
\* when B returns the call returns B's status.
C2_SequenceWhenReturns ==
    \A i \in DOMAIN log :
        (log[i].ev = "enter" /\ SplitsAtSequence(log[i].text)) =>
            LET c == log[i].text
                s == SeqScan(c, 1, 0)
            IN  /\ EntersAt(i + 1, i, Upto(c, s))
                /\ \A j \in LeaveOf(i + 1) :
                       /\ EntersAt(j + 1, i, From(c, s + 1))
                       /\ \A k \in LeaveOf(j + 1) : LeavesAt(k + 1, i, log[k].n)

\* C2 as stated: for every A and B, builtins included, A is executed, then
\* B is executed, and the call returns B's status.
C2_SequenceAlways ==
    \A i \in DOMAIN log :
        (log[i].ev = "enter" /\ SplitsAtSequence(log[i].text)) =>
            LET c == log[i].text
                s == SeqScan(c, 1, 0)
            IN  /\ EntersAt(i + 1, i, Upto(c, s))
                /\ \E j \in DOMAIN log :
                       /\ j > i + 1
                       /\ EntersAt(j, i, From(c, s + 1))
                       /\ \A k \in LeaveOf(j) : LeavesAt(k + 1, i, log[k].n)

\* `false;true` ran both programs and returned 0
C2_Witness ==
    /\ chain = FalseCmd \o <<";">> \o TrueCmd
    /\ returned
    /\ status = 0
    /\ \E i, j \in DOMAIN log :
           /\ i < j
           /\ log[i].ev = "exec" /\ log[i].text = FalseCmd
           /\ log[j].ev = "exec" /\ log[j].text = TrueCmd

-----------------------------------------------------------------------------
(* Pipes.                                                                  *)

\* the fork of the right child made by the run_pipe call entered at event
\* i: the first "right" fork of that process after the call's left fork
RightForkOf(i) ==
    {r \in DOMAIN log :
        /\ r > i + 2
        /\ log[r].ev = "fork" /\ log[r].text = <<"right">>
        /\ log[r].p.pid = log[i].p.pid
        /\ \A m \in (i + 3) .. (r - 1) :
               ~(log[m].ev = "fork" /\ log[m].text = <<"right">>
                   /\ log[m].p.pid = log[i].p.pid)}

\* event e is the normal exit of process pid
NormalExitOf(e, pid) ==
    log[e].ev = "exit" /\ log[e].p.pid = pid /\ log[e].text = <<"exited">>

\* a wait of process pid for child delivered the child's status
WaitDelivered(pid, child) ==
    \E e \in DOMAIN log :
        /\ log[e].ev = "wait" /\ log[e].p.pid = pid
        /\ log[e].n = child /\ log[e].ref = 1

\* C3: in every call that splits its text at a pipe, if both forks succeed
\* and the status the parent reads for the right child is a normal exit with
\* code c, then the call returns c, however the left child ended; since the
\* split is at the last depth-0 '|', the right child of `A | B | C` is C.
C3_PipeStatus ==
    \A i \in DOMAIN log :
        (log[i].ev = "enter" /\ SplitsAtPipe(log[i].text)) =>
            \A r \in RightForkOf(i) : \A e \in DOMAIN log :
                (/\ log[i + 2].ev = "fork" /\ log[i + 2].n # -1
                 /\ log[r].n # -1
                 /\ NormalExitOf(e, log[r].n)
                 /\ WaitDelivered(log[i].p.pid, log[r].n))
                => \E j \in LeaveOf(i) : log[j].n = log[e].n

\* `exec k|true` returned 0 although the left child was killed by a signal;
\* the right stage of the call is `true`
C3_Witness ==
    /\ chain = EXEC \o <<" ", "k", "|">> \o TrueCmd
    /\ returned
    /\ status = 0
    /\ \E e \in DOMAIN log : log[e].ev = "exit" /\ log[e].text = <<"signaled">>
    /\ \E r \in RightForkOf(1) : \E e \in DOMAIN log :
           NormalExitOf(e, log[r].n) /\ log[e].n = 0

\* the pipe() of the run_pipe call that made the fork at event j
PipeEventOf(j) ==
    CHOOSE k \in 1 .. (j - 1) :
        /\ log[k].ev = "pipe" /\ log[k].p.pid = log[j].p.pid
        /\ \A m \in (k + 1) .. (j - 1) :
               ~(log[m].ev = "pipe" /\ log[m].p.pid = log[j].p.pid)

PipeIdOf(j) == log[PipeEventOf(j)].p.fds[log[PipeEventOf(j)].n][2]

\* C4 as stated: whenever a pipe child starts evaluating its sub-chain, the
\* left child's descriptor 1 is the write end of the pipe of its call and
\* the right child's descriptor 0 is the read end, whatever descriptor table
\* the shell had when the pipe was created.
C4_PipeChildrenWired ==
    \A j \in DOMAIN log :
        (log[j].ev = "fork" /\ log[j].n # -1
            /\ log[j].text \in {<<"left">>, <<"right">>}) =>
            /\ j + 1 \in DOMAIN log
            /\ log[j + 1].ev = "enter"
            /\ log[j + 1].p.pid = log[j].n
            /\ IF log[j].text = <<"left">>
               THEN log[j + 1].p.fds[1] = <<"pipe_w", PipeIdOf(j)>>
               ELSE log[j + 1].p.fds[0] = <<"pipe_r", PipeIdOf(j)>>

\* in `(true|true)<&-` the pipe's read end is descriptor 0, and the right
\* child starts `true` with descriptor 0 closed
C4_Witness ==
    /\ chain = <<"(">> \o TrueCmd \o <<"|">> \o TrueCmd \o <<")", "<", "&", "-">>
    /\ returned
    /\ \E j \in DOMAIN log :
           /\ log[j].ev = "fork" /\ log[j].text = <<"right">> /\ log[j].n # -1
           /\ log[PipeEventOf(j)].n = 0
           /\ log[j + 1].ev = "enter" /\ log[j + 1].text = TrueCmd
           /\ log[j + 1].p.fds[0] = Closed

-----------------------------------------------------------------------------
(* Redirections.                                                           *)

\* C5: in every call that applies a redirection with destination descriptor
\* d, the command is evaluated in the child under a descriptor table that
\* differs from the caller's at d only, and when the call returns the
\* caller's descriptor table is the one it had at the call.
C5_RedirectionFrame ==
    \A i \in DOMAIN log :
        (log[i].ev = "enter" /\ SplitsAtRedirect(log[i].text)) =>
            LET o == RedirParse(log[i].text, RedirScan(log[i].text, Len(log[i].text), 0))
            IN  /\ (/\ i + 3 \in DOMAIN log
                    /\ log[i + 1].ev = "fork"
                    /\ log[i + 2].ev \in {"open", "close"}
                    /\ log[i + 3].ev = "enter"
                    /\ log[i + 3].p.pid = log[i + 1].n)
                   => /\ log[i + 3].text = o.cmd
                      /\ \A d \in FdRange \ {o.dest_fd} :
                             log[i + 3].p.fds[d] = log[i].p.fds[d]
                /\ \A j \in LeaveOf(i) : log[j].p.fds = log[i].p.fds

\* `true 2>w`, typed, ran `true` with descriptor 2 on the new file and
\* descriptor 1 as before, and the shell's table is as it was
C5_Witness ==
    /\ chain = TrueCmd \o <<" ", "2", ">", "w">>
    /\ script_mode = 0
    /\ returned
    /\ \E i \in DOMAIN log :
           /\ log[i].ev = "exec" /\ log[i].text = TrueCmd
           /\ log[i].p.fds[2][1] = "file"
           /\ log[i].p.fds[1] = <<"std", 1>>
           /\ log[i].p.fds[3] = Closed
    /\ fds[2] = <<"std", 2>>
    /\ <<"w">> \in files

-----------------------------------------------------------------------------
(* Subshells.                                                              *)

\* C6: when a call that runs its text as a parenthesized subshell returns,
\* the caller's working directory and prevDir are what they were at the
\* call, whatever cd commands ran inside the parentheses.
C6_SubshellIsolation ==
    \A i \in DOMAIN log :
        (log[i].ev = "enter" /\ IsSubshell(log[i].text)) =>
            \A j \in LeaveOf(i) :
                /\ log[j].p.cwd = log[i].p.cwd
                /\ log[j].p.prevDir = log[i].p.prevDir

\* after `cd /a;(cd /b)` the subshell was in /b with prevDir /a, and the
\* shell is in /a with prevDir /
C6_Witness ==
    /\ chain = CD \o <<" ", "/", "a", ";", "(">> \o CD \o <<" ", "/", "b", ")">>
    /\ returned
    /\ \E i \in DOMAIN log :
           /\ log[i].ev = "cd" /\ log[i].n = 0
           /\ log[i].p.cwd = <<"/", "b">> /\ log[i].p.prevDir = <<"/", "a">>
    /\ cwd = <<"/", "a">>
    /\ prevDir = <<"/">>

-----------------------------------------------------------------------------
(* Negation.                                                               *)

\* C7 as amended: in every call on a text that has no depth-0 ';', "&&",
\* "||", '|' or redirection operator and begins with '!', the remainder R
\* is evaluated in the same process, and when R returns the call returns 1
\* if R's status is 0 and 0 otherwise.
C7_Negation ==
    \A i \in DOMAIN log :
        (log[i].ev = "enter" /\ IsNegation(log[i].text)) =>
            /\ EntersAt(i + 1, i, Tail(trim_whitespace(log[i].text)))
            /\ \A j \in LeaveOf(i + 1) :
                   LeavesAt(j + 1, i, IF log[j].n = 0 THEN 1 ELSE 0)

\* C7 as stated: for every chain R, a call on `!R` evaluates R in the same
\* process and returns 1 if R's status is 0 and 0 otherwise.
C7_NegationEveryChain ==
    \A i \in DOMAIN log :
        (log[i].ev = "enter" /\ StartsWith(log[i].text, "!")) =>
            /\ EntersAt(i + 1, i, Tail(trim_whitespace(log[i].text)))
            /\ \A j \in LeaveOf(i + 1) :
                   LeavesAt(j + 1, i, IF log[j].n = 0 THEN 1 ELSE 0)

\* `!false` evaluated `false`, which returned 1, and returned 0
C7_Witness ==
    /\ chain = <<"!">> \o FalseCmd
    /\ returned
    /\ status = 0
    /\ EntersAt(2, 1, FalseCmd)
    /\ \E j \in LeaveOf(2) : log[j].n = 1

BangBangTrue == <<"!", "!">> \o TrueCmd

\* C8 as amended: every call on `!!true` in which `true` returns 0 returns
\* 0: the inner '!' makes it 1 and the outer '!' makes that 0 again.
C8_DoubleNegation ==
    \A i \in DOMAIN log :
        (log[i].ev = "enter" /\ log[i].text = BangBangTrue) =>
            /\ EntersAt(i + 1, i, Tail(BangBangTrue))
            /\ EntersAt(i + 2, i, TrueCmd)
            /\ \A k \in LeaveOf(i + 2) :
                   log[k].n = 0 =>
                       /\ LeavesAt(k + 1, i + 1, 1)
                       /\ LeavesAt(k + 2, i, 0)

\* C8 as stated: a call on `!!true` returns 1.
C8_DoubleNegationFlipsOnce ==
    \A i \in DOMAIN log :
        (log[i].ev = "enter" /\ log[i].text = BangBangTrue) =>
            \A j \in LeaveOf(i) : log[j].n = 1

\* `!!true` ran `true` and returned 0
C8_Witness ==
    /\ chain = BangBangTrue
    /\ returned
    /\ status = 0
    /\ \E i \in DOMAIN log : log[i].ev = "exec" /\ log[i].text = TrueCmd

-----------------------------------------------------------------------------
(* Malformed subshells.                                                    *)

\* the position of the ')' that closes the '(' opened before position i at
\* the given depth, or 0 when the text ends first
RECURSIVE ClosesAt(_, _, _)
ClosesAt(t, i, depth) ==
    IF i > Len(t) THEN 0
    ELSE IF t[i] = "(" THEN ClosesAt(t, i + 1, depth + 1)
    ELSE IF t[i] = ")"
         THEN IF depth = 1 THEN i ELSE ClosesAt(t, i + 1, depth - 1)
    ELSE ClosesAt(t, i + 1, depth)

\* the text opens a subshell that nothing closes
Unclosed(c) == StartsWith(c, "(") /\ ClosesAt(trim_whitespace(c), 2, 1) = 0

\* C9 as stated: every call on a text that opens a subshell with '(' and
\* has no matching ')' returns 2, and between its entry and its return no
\* program is executed, no builtin changes a directory and no file is
\* opened or created.
C9_UnclosedParenthesis ==
    \A i \in DOMAIN log :
        (log[i].ev = "enter" /\ Unclosed(log[i].text)) =>
            \E j \in LeaveOf(i) :
                /\ log[j].n = 2
                /\ \A k \in i .. j : log[k].ev \notin {"exec", "open", "cd"}

\* `(true|true` ran `true` as the right stage of a pipe and returned 0
C9_Witness ==
    /\ chain = <<"(">> \o TrueCmd \o <<"|">> \o TrueCmd
    /\ returned
    /\ status = 0
    /\ \E i \in DOMAIN log : log[i].ev = "exec" /\ log[i].text = TrueCmd

-----------------------------------------------------------------------------
(* exit without an argument.                                               *)

\* the shell process ended in an exit builtin that had no argument
EndedByPlainExit ==
    /\ ~running
    /\ Len(log) >= 2
    /\ log[Len(log)].ev = "exit"
    /\ log[Len(log)].p.pid = 1
    /\ log[Len(log) - 1].ev = "exit_builtin"
    /\ log[Len(log) - 1].text = EXIT

\* C10 as stated: when `exit` without an argument ends a shell that has run
\* an external command, the shell's exit code is the status of the last
\* external command it ran, whatever builtins and empty lines came after
\* that command.
C10_ExitUsesLastExternal ==
    (EndedByPlainExit /\ last_external # -1) => exit_ws = Exited(last_external)

\* the shell's last external command ended with 3, and `exit` ended the
\* shell with 0
C10_Witness ==
    /\ EndedByPlainExit
    /\ last_external = 3
    /\ exit_ws = Exited(0)

-----------------------------------------------------------------------------
(* exit with a numeric argument.                                           *)

\* one command line of `exit` and the characters of decimal numbers
ExitWords ==
    {EXIT \o <<" ">>, <<"-">>, <<"0">>, <<"2">>, <<"3">>, <<"5">>, <<"6">>}

InitExit == InitShell({<<t>> : t \in Texts(ExitWords, MaxWords)}, {0}, {Calm})

SpecExit == InitExit /\ [][Next]_vars

\* an optional '-' and then one decimal digit or more, nothing else
WellFormedDecimal(tok) ==
    /\ tok # <<>>
    /\ Len(IF tok[1] = "-" THEN Tail(tok) ELSE tok) > 0
    /\ \A i \in DOMAIN (IF tok[1] = "-" THEN Tail(tok) ELSE tok) :
           IsDigit((IF tok[1] = "-" THEN Tail(tok) ELSE tok)[i])

\* the integer such a text writes
DecimalOf(tok) == IF tok[1] = "-" THEN 0 - DecVal(Tail(tok)) ELSE DecVal(tok)

\* C11: for every well-formed decimal n, negative ones included, the command
\* `exit n` ends the shell process with an exit code r in 0 .. 255 that
\* differs from n by a multiple of 256, that is with n mod 256.
C11_ExitCodeModulo256 ==
    (/\ Len(parse_command(chain)) = 2
     /\ parse_command(chain)[1] = EXIT
     /\ WellFormedDecimal(parse_command(chain)[2])) =>
        /\ ~running
        /\ ~returned
        /\ exit_ws.how = "exited"
        /\ exit_ws.n \in 0 .. 255
        /\ (DecimalOf(parse_command(chain)[2]) - exit_ws.n) % 256 = 0

\* `exit -300` ended the shell with 212
C11_Witness ==
    /\ chain = EXIT \o <<" ", "-", "3", "0", "0">>
    /\ ~running
    /\ exit_ws = Exited(212)
    /\ log[Len(log) - 1].ev = "exit_builtin"

-----------------------------------------------------------------------------
(* The previous-directory slot.                                            *)

\* a session of cd commands, one on each line; /z does not exist
CdLines ==
    {CD \o <<" ", "/", "a">>, CD \o <<" ", "/", "b">>, CD \o <<" ", "/", "z">>,
     CD \o <<" ", "-">>, CD}

InitDirs == InitShell(Inputs(CdLines, MaxLines), {0}, {Calm})

SpecDirs == InitDirs /\ [][Next]_vars

\* the line just executed was a cd that ended with status st
CdEnded(events, st) == \E k \in DOMAIN events : events[k].ev = "cd" /\ events[k].n = st

\* C12 as stated, one cd at a time: a successful cd leaves in prevDir the
\* working directory the shell had immediately before it; every other cd
\* (a failing one, a wrong argument count, `cd -` with nothing to go back
\* to) leaves the working directory and prevDir as they were, and a failing
\* cd returns 1.  Hence after any sequence of cd invocations prevDir is the
\* working directory held immediately before the last successful cd.
C12_PreviousDirectory ==
    [][input' # input =>
          /\ CdEnded(log', 0) => prevDir' = cwd
          /\ ~CdEnded(log', 0) => (prevDir' = prevDir /\ cwd' = cwd)
          /\ CdEnded(log', 1) => (returned' /\ status' = 1)]_vars

\* `cd /z` failed in /a and replaced the prevDir it was entered with by /a
C12_Witness ==
    /\ chain = CD \o <<" ", "/", "z">>
    /\ returned
    /\ status = 1
    /\ cwd = <<"/", "a">>
    /\ prevDir = <<"/", "a">>
    /\ log[1].ev = "enter"
    /\ log[1].p.prevDir = <<"/">>
    /\ log[2].ev = "cd"

-----------------------------------------------------------------------------
(* history -c followed by history.                                         *)

HistoryClear == HISTORY \o <<" ", "-", "c">>

\* an interactive session of history commands, an external program and
\* empty lines
HistoryLines == {HISTORY, HistoryClear, HistoryClear \o <<";">> \o HISTORY, <<"x">>, <<>>}

InitHistory == InitShell(Inputs(HistoryLines, MaxLines), {0}, {Calm})

SpecHistory == InitHistory /\ [][Next]_vars

\* the history builtin printed n numbered lines
Printed(events, n) == \E k \in DOMAIN events : events[k].ev = "print" /\ events[k].n = n

\* the last line executed was `history -c` and the next line is `history`
HistoryAfterClear ==
    /\ chain = HistoryClear
    /\ returned
    /\ input # <<>>
    /\ Head(input) = HISTORY

\* C13, amended: in the interactive shell the line `history` entered after
\* the line `history -c` prints exactly one entry, itself, and the store
\* holds that entry alone; `history` on the same line as the clearing
\* (`history -c;history`) prints nothing.
C13_HistoryAfterClear ==
    [][/\ HistoryAfterClear => (Printed(log', 1) /\ history' = <<HISTORY>>)
       /\ (input' # input /\ chain' = HistoryClear \o <<";">> \o HISTORY) =>
              (Printed(log', 0) /\ history' = <<>>)]_vars

\* C13 as stated: in the interactive shell, `history -c` followed by
\* `history` makes the second command print nothing: the store is empty
\* when it prints.
C13_HistoryAfterClearPrintsNothing ==
    [][HistoryAfterClear => (Printed(log', 0) /\ history' = <<>>)]_vars

\* an external command was recorded, the store was cleared, and `history`
\* printed one entry, itself
C13_Witness ==
    /\ script_mode = 0
    /\ chain = HISTORY
    /\ returned
    /\ last_external = 3
    /\ history = <<HISTORY>>
    /\ Printed(log, 1)

-----------------------------------------------------------------------------
(* The range of statuses.                                                  *)

\* one command line over every forking construct: programs that exit with
\* 3 and that die of signal 9, subshells, pipes, a redirection, exec
StatusWords ==
    {<<"x">>, <<"k">>, <<"(">>, <<")">>, <<"|">>, <<" ", ">", "w">>, EXEC \o <<" ">>}

InitStatus == InitShell({<<t>> : t \in Texts(StatusWords, MaxWordsSt)}, {1}, PipeEnvs)

SpecStatus == InitStatus /\ [][Next]_vars

\* C14: every status a call of execute_chain returns (the calls that apply
\* run_pipe, run_redirect and run_subshell among them), every status run
\* stores, and every value of last_exit_status, in the shell and in every
\* child, is an integer in 0 .. 255, however the children end and whichever
\* fork or wait fails.
C14_StatusRange ==
    /\ last_exit_status \in 0 .. 255
    /\ returned => status \in 0 .. 255
    /\ \A i \in DOMAIN log :
           /\ log[i].p.les \in 0 .. 255
           /\ log[i].ev \in {"leave", "run"} => log[i].n \in 0 .. 255

\* `(exec k)`: the subshell died of signal 9 and the chain returned 137
C14_Witness ==
    /\ chain = <<"(">> \o EXEC \o <<" ", "k", ")">>
    /\ returned
    /\ status = 137
    /\ last_exit_status = 137
    /\ \E i \in DOMAIN log : log[i].ev = "exit" /\ log[i].text = <<"signaled">>

-----------------------------------------------------------------------------
(* The order in which the constructs are tried.                            *)

\* one command line over every construct
OrderWords ==
    {TrueCmd, FalseCmd, <<"!">>, <<"|">>, <<" ", ">", "w">>, <<";">>, <<"&", "&">>,
     <<"(">>, <<")">>}

InitOrder == InitShell({<<t>> : t \in Texts(OrderWords, MaxWordsSt)}, {1}, {Calm})

SpecOrder == InitOrder /\ [][Next]_vars

\* event j is the entry of a call on `text` in process pid
EntersIn(j, pid, text) ==
    /\ j \in DOMAIN log
    /\ log[j].ev = "enter"
    /\ log[j].text = text
    /\ log[j].p.pid = pid

\* the call entered at event i goes on, at event i + 1, as a pipe does: the
\* pipe is made, and each child that is forked enters its side of the last
\* depth-0 '|'
GoesOnAsPipe(i, c) ==
    /\ log[i + 1].ev = "pipe"
    /\ log[i + 1].n # -1 =>
          /\ log[i + 2].ev = "fork" /\ log[i + 2].text = <<"left">>
          /\ EntersIn(i + 3, log[i + 2].n, Upto(c, PipeScan(c, Len(c), 0)))
          /\ \A r \in RightForkOf(i) :
                 EntersIn(r + 1, log[r].n, From(c, PipeScan(c, Len(c), 0) + 1))

\* ... as a redirection does: a child is forked, and when it has opened the
\* target it enters the command without the operator and the target
GoesOnAsRedirect(i, c) ==
    /\ log[i + 1].ev = "fork" /\ log[i + 1].text = <<"redirect">>
    /\ (i + 2 \in DOMAIN log /\ log[i + 2].ev = "open" /\ log[i + 2].n # -1) =>
          EntersIn(i + 3, log[i + 1].n, RedirParse(c, RedirScan(c, Len(c), 0)).cmd)

\* ... as a parenthesized text does: a subshell is forked, or the text is
\* refused
GoesOnAsParenthesis(i, c) ==
    \/ log[i + 1].ev = "syntax"
    \/ /\ log[i + 1].ev = "fork" /\ log[i + 1].text = <<"subshell">>
       /\ EntersIn(i + 2, log[i + 1].n,
                   SubSeq(trim_whitespace(c), 2, Len(trim_whitespace(c)) - 1))

\* C15: every call of execute_chain applies the first construct, and that
\* construct alone, that its text has in the order `;`, `&&`/`||`, `|`,
\* redirection, leading `!`, `(`, empty text, atomic command: the event that
\* follows the entry of the call is the first step of that construct on the
\* parts the construct's own scan gives.  So `! A | B` is split at the pipe
\* (`!A` is the left child's text) and `A | B > f` too (`B > f` is the right
\* child's text, and the redirection is applied there).
C15_ConstructOrder ==
    \A i \in DOMAIN log :
        log[i].ev = "enter" =>
            LET c == log[i].text IN
            /\ i + 1 \in DOMAIN log
            /\ IF SplitsAtSequence(c) THEN EntersAt(i + 1, i, Upto(c, SeqScan(c, 1, 0)))
               ELSE IF SplitsAtConditional(c)
                    THEN EntersAt(i + 1, i, Upto(c, CondScan(c, 1, 0)))
               ELSE IF SplitsAtPipe(c) THEN GoesOnAsPipe(i, c)
               ELSE IF SplitsAtRedirect(c) THEN GoesOnAsRedirect(i, c)
               ELSE IF StartsWith(c, "!")
                    THEN EntersAt(i + 1, i, Tail(trim_whitespace(c)))
               ELSE IF StartsWith(c, "(") THEN GoesOnAsParenthesis(i, c)
               ELSE IF trim_whitespace(c) = <<>> THEN LeavesAt(i + 1, i, 0)
               ELSE log[i + 1].ev = "fork" /\ log[i + 1].text = <<"run">>

\* `!true|false` returned the status 1 of `false`: the left child entered
\* `!true`, and nothing negated the result of the pipe
C15_Witness ==
    /\ chain = <<"!">> \o TrueCmd \o <<"|">> \o FalseCmd
    /\ returned
    /\ status = 1
    /\ log[2].ev = "pipe"
    /\ EntersIn(4, log[3].n, <<"!">> \o TrueCmd)
    /\ \E j \in DOMAIN log :
           log[j].ev = "leave" /\ log[j].text = <<"!">> \o TrueCmd /\ log[j].n = 1

-----------------------------------------------------------------------------
(* The order of the parent's steps in run_pipe.                            *)

\* process pid does nothing from event a to event b
Silent(pid, a, b) == \A m \in a .. b : log[m].p.pid # pid

\* descriptor table f holds an end of pipe number id
HoldsPipe(f, id) ==
    \E n \in DOMAIN f : f[n] = <<"pipe_r", id>> \/ f[n] = <<"pipe_w", id>>

\* in the call entered at event i, whose right child was forked at event r
\* and which returned at event j, the parent made the pipe, forked the left
\* child, forked the right child, closed both ends, waited for the left
\* child and waited for the right child, in this order and doing nothing
\* else, and held no end of the pipe while it waited
PipeParentInOrder(i, r, j) ==
    /\ log[i + 1].ev = "pipe"
    /\ log[i + 2].ev = "fork" /\ log[i + 2].text = <<"left">>
    /\ Silent(log[i].p.pid, i + 3, r - 1)
    /\ Silent(log[i].p.pid, r + 1, j - 4)
    /\ j - 3 > r
    /\ log[j - 3].ev = "close" /\ log[j - 3].p.pid = log[i].p.pid
    /\ log[j - 3].n = log[i + 1].n /\ log[j - 3].ref = log[i + 1].ref
    /\ log[j - 2].ev = "wait" /\ log[j - 2].p.pid = log[i].p.pid
    /\ log[j - 2].n = log[i + 2].n
    /\ log[j - 1].ev = "wait" /\ log[j - 1].p.pid = log[i].p.pid
    /\ log[j - 1].n = log[r].n
    /\ ~HoldsPipe(log[j - 2].p.fds, log[i + 1].p.fds[log[i + 1].n][2])
    /\ ~HoldsPipe(log[j - 1].p.fds, log[i + 1].p.fds[log[i + 1].n][2])

\* C16: in every call of run_pipe in which both forks succeed the parent's
\* events are, in this order: create the pipe, fork the left child, fork the
\* right child, close both pipe ends, wait for the left child, wait for the
\* right child; no wait comes before both children exist, and the parent
\* holds neither end of the pipe while it waits.
C16_PipeParentOrder ==
    \A i \in DOMAIN log :
        (/\ log[i].ev = "enter"
         /\ i + 2 \in DOMAIN log
         /\ log[i + 1].ev = "pipe" /\ log[i + 1].p.pid = log[i].p.pid
         /\ log[i + 2].ev = "fork" /\ log[i + 2].n # -1) =>
            \A r \in RightForkOf(i) :
                log[r].n # -1 => \E j \in LeaveOf(i) : PipeParentInOrder(i, r, j)

\* `x|true`: both children were forked and both ran before the shell closed
\* the pipe and waited
C16_Witness ==
    /\ chain = <<"x", "|">> \o TrueCmd
    /\ returned
    /\ \E r \in RightForkOf(1) : \E j \in LeaveOf(1) :
           /\ log[3].n # -1
           /\ log[r].n # -1
           /\ PipeParentInOrder(1, r, j)
           /\ \E m \in 4 .. (r - 1) : log[m].ev = "exec" /\ log[m].text = <<"x">>
           /\ \E m \in (r + 1) .. (j - 4) : log[m].ev = "exec" /\ log[m].text = TrueCmd

-----------------------------------------------------------------------------
(* Children are waited for.                                                *)

\* process pid called waitpid for child between events a and b
WaitsFor(pid, child, a, b) ==
    \E m \in a .. b :
        log[m].ev = "wait" /\ log[m].p.pid = pid /\ log[m].n = child

\* C17 as stated: on every path through run, run_redirect, run_subshell and
\* run_pipe, the fork-failure paths included, every child the construct
\* forked has been waited for by the parent before the construct returns:
\* between a successful fork made in a call and the return of that call the
\* forking process waits for the child.
C17_ChildrenWaitedFor ==
    \A j \in DOMAIN log :
        log[j].ev = "leave" =>
            \A f \in log[j].ref .. j :
                (log[f].ev = "fork" /\ log[f].n # -1
                    /\ log[f].p.pid = log[j].p.pid) =>
                    WaitsFor(log[j].p.pid, log[f].n, f, j)

\* `x|x` with the fork of the right child failing: the left child was
\* forked and ran x, and the call returned 1 without any wait
C17_Witness ==
    /\ chain = <<"x", "|", "x">>
    /\ returned
    /\ status = 1
    /\ log[3].ev = "fork" /\ log[3].text = <<"left">> /\ log[3].n # -1
    /\ \E r \in DOMAIN log :
           log[r].ev = "fork" /\ log[r].text = <<"right">> /\ log[r].n = -1
    /\ \A m \in DOMAIN log : log[m].ev = "wait" => log[m].p.pid # 1

-----------------------------------------------------------------------------
(* Pipe descriptors in the parent.                                         *)

\* descriptor table f holds an end of some pipe
HoldsAnyPipe(f) == \E n \in DOMAIN f : f[n][1] \in {"pipe_r", "pipe_w"}

\* C18 as stated: on every path through run_pipe in the parent, the
\* fork-failure paths included, both descriptors of the pipe are closed in
\* the parent before run_pipe returns, so that the shell holds no pipe end
\* after any sequence of pipe evaluations.
C18_PipeEndsClosed ==
    /\ \A j \in DOMAIN log :
           (/\ log[j].ev = "leave"
            /\ log[log[j].ref + 1].ev = "pipe"
            /\ log[log[j].ref + 1].p.pid = log[j].p.pid
            /\ log[log[j].ref + 1].n # -1) =>
               ~HoldsPipe(log[j].p.fds,
                          log[log[j].ref + 1].p.fds[log[log[j].ref + 1].n][2])
    /\ returned => ~HoldsAnyPipe(fds)

\* `true|true` with the fork of the left child failing: the shell goes on
\* with both ends of the pipe open
C18_Witness ==
    /\ chain = TrueCmd \o <<"|">> \o TrueCmd
    /\ returned
    /\ status = 1
    /\ log[2].ev = "pipe"
    /\ log[3].ev = "fork" /\ log[3].text = <<"left">> /\ log[3].n = -1
    /\ fds[log[2].n] = <<"pipe_r", 1>>
    /\ fds[log[2].ref] = <<"pipe_w", 1>>

-----------------------------------------------------------------------------
(* One translation of wait statuses.                                       *)

\* what the claim makes of the way a process ended, read from the event of
\* its end: code c gives c, signal N gives 128 + N, anything else 1
Translated(e) ==
    IF log[e].text = <<"exited">> THEN log[e].n
    ELSE IF log[e].text = <<"signaled">> THEN 128 + log[e].n
    ELSE 1

\* the event at which process pid ended
EndOf(pid) == {e \in DOMAIN log : log[e].ev = "exit" /\ log[e].p.pid = pid}

\* run stored the translation of its child's end
RunTranslates ==
    \A m \in DOMAIN log :
        log[m].ev = "run" => \A e \in EndOf(log[m].ref) : log[m].n = Translated(e)

\* a call that forked a subshell returned the translation of its end
SubshellTranslates ==
    \A j \in DOMAIN log :
        (/\ log[j].ev = "leave"
         /\ log[log[j].ref + 1].ev = "fork"
         /\ log[log[j].ref + 1].text = <<"subshell">>
         /\ log[log[j].ref + 1].p.pid = log[j].p.pid) =>
            \A e \in EndOf(log[log[j].ref + 1].n) : log[j].n = Translated(e)

\* a call that made a pipe and forked both children returned the
\* translation of the right child's end
PipeTranslates ==
    \A j \in DOMAIN log :
        (/\ log[j].ev = "leave"
         /\ log[log[j].ref + 1].ev = "pipe"
         /\ log[log[j].ref + 1].p.pid = log[j].p.pid) =>
            \A r \in RightForkOf(log[j].ref) : \A e \in EndOf(log[r].n) :
                log[j].n = Translated(e)

\* C19 as stated: when the parent's wait delivers the child's status, run,
\* run_subshell and run_pipe translate the end of the child whose status
\* they return in the same way: normal exit with code c gives c,
\* termination by signal N gives 128 + N, anything else gives 1.
C19_SameTranslation ==
    ~env.wait_fail => (RunTranslates /\ SubshellTranslates /\ PipeTranslates)

\* `x|exec k`: the right child was killed by signal 9 and the pipe
\* returned 1
C19_Witness ==
    /\ chain = <<"x", "|">> \o EXEC \o <<" ", "k">>
    /\ ~env.wait_fail
    /\ returned
    /\ status = 1
    /\ \E r \in RightForkOf(1) : \E e \in EndOf(log[r].n) :
           log[e].text = <<"signaled">> /\ log[e].n = 9

-----------------------------------------------------------------------------
(* Failing system calls.                                                   *)

\* the call that returned at event j made, itself, a fork that failed
ForkFailedIn(j) ==
    \/ log[log[j].ref + 1].ev = "fork" /\ log[log[j].ref + 1].n = -1
    \/ /\ log[log[j].ref + 1].ev = "pipe" /\ log[log[j].ref + 1].n # -1
       /\ \/ log[log[j].ref + 2].n = -1
          \/ \E r \in RightForkOf(log[j].ref) : log[r].n = -1

\* ... could not make its pipe
PipeFailedIn(j) == log[log[j].ref + 1].ev = "pipe" /\ log[log[j].ref + 1].n = -1

\* ... forked a redirecting child that could not open its target
OpenFailedIn(j) ==
    /\ log[log[j].ref + 1].ev = "fork" /\ log[log[j].ref + 1].text = <<"redirect">>
    /\ log[log[j].ref + 2].ev = "open" /\ log[log[j].ref + 2].n = -1

\* ... waited last for a child, and the wait failed
WaitFailedIn(j) ==
    /\ log[j - 1].p.pid = log[j].p.pid
    /\ \/ log[j - 1].ev = "wait" /\ log[j - 1].ref = 0
       \/ /\ log[j - 1].ev = "run"
          /\ log[j - 2].ev = "wait" /\ log[j - 2].p.pid = log[j].p.pid
          /\ log[j - 2].ref = 0

\* C20 as stated: whenever a fork, pipe, open, descriptor-duplication or
\* wait call fails inside run, run_pipe, run_redirect or run_subshell, the
\* call in which it failed returns 1 to its caller (after a failed open the
\* sub-chain is not entered), and the shell process does not end in the
\* call: execute_chain returns to the read loop.
C20_FailuresGiveOne ==
    /\ \A j \in DOMAIN log :
           (log[j].ev = "leave" /\ j > log[j].ref + 1
               /\ (ForkFailedIn(j) \/ PipeFailedIn(j) \/ OpenFailedIn(j)
                     \/ WaitFailedIn(j))) =>
               /\ log[j].n = 1
               /\ OpenFailedIn(j) => log[log[j].ref + 3].ev = "exit"
    /\ (\E m \in DOMAIN log :
           /\ log[m].p.pid = 1
           /\ \/ log[m].ev \in {"fork", "pipe"} /\ log[m].n = -1
              \/ log[m].ev = "wait" /\ log[m].ref = 0) => returned

\* `x|x` with failing waits: the shell read a status it was not given and
\* the pipe returned 7
C20_Witness ==
    /\ chain = <<"x", "|", "x">>
    /\ env.wait_fail
    /\ returned
    /\ status = 7
    /\ log[Len(log) - 1].ev = "wait" /\ log[Len(log) - 1].ref = 0
    /\ log[Len(log) - 1].p.pid = 1

-----------------------------------------------------------------------------
(* The parenthesis depth of the four scans.                                *)

\* if (paren_level > 0) paren_level--;
Unnested(lvl) == IF lvl > 0 THEN lvl - 1 ELSE lvl

\* paren_level of the two forward scans when the scanner stands at position
\* i: '(' before i adds one, ')' takes one away unless the level is 0
RECURSIVE ForwardLevel(_, _)
ForwardLevel(c, i) ==
    IF i <= 1 THEN 0
    ELSE IF c[i - 1] = "(" THEN ForwardLevel(c, i - 1) + 1
    ELSE IF c[i - 1] = ")" THEN Unnested(ForwardLevel(c, i - 1))
    ELSE ForwardLevel(c, i - 1)

\* paren_level of the two backward scans when the scanner stands at
\* position i: ')' after i adds one, '(' takes one away
RECURSIVE BackwardLevel(_, _)
BackwardLevel(c, i) ==
    IF i >= Len(c) THEN 0
    ELSE IF c[i + 1] = ")" THEN BackwardLevel(c, i + 1) + 1
    ELSE IF c[i + 1] = "(" THEN BackwardLevel(c, i + 1) - 1
    ELSE BackwardLevel(c, i + 1)

\* C21 as stated: for every text execute_chain is called on, balanced or
\* not, the level of the backward scans is never negative, and a '|', '<'
\* or '>' is at level 0 for the pipe and redirection scans exactly when the
\* sequence and conditional scans have level 0 at its position; so the
\* operator the call splits at is at level 0 of the forward scans, and a
\* text with a single '|' at level 0 of the forward scans, with no ';',
\* "&&" or "||" there, is split at a pipe.
C21_ScanDepthClamped ==
    \A e \in DOMAIN log :
        log[e].ev = "enter" =>
            /\ \A i \in DOMAIN log[e].text :
                   /\ BackwardLevel(log[e].text, i) >= 0
                   /\ log[e].text[i] \in {"|", "<", ">"} =>
                          (BackwardLevel(log[e].text, i) = 0
                             <=> ForwardLevel(log[e].text, i) = 0)
            /\ SplitsAtPipe(log[e].text) =>
                   ForwardLevel(log[e].text, PipeScan(log[e].text, Len(log[e].text), 0)) = 0
            /\ SplitsAtRedirect(log[e].text) =>
                   ForwardLevel(log[e].text, RedirScan(log[e].text, Len(log[e].text), 0)) = 0

\* `true|(true`: the backward scans reach the '|' at level -1, the text is
\* not split, and the whole of it is run as the name of a program
C21_Witness ==
    /\ chain = TrueCmd \o <<"|", "(">> \o TrueCmd
    /\ returned
    /\ status = 127
    /\ BackwardLevel(chain, 5) = -1
    /\ ForwardLevel(chain, 5) = 0
    /\ PipeScan(chain, Len(chain), 0) = 0
    /\ \E m \in DOMAIN log : log[m].ev = "exec" /\ log[m].text = chain

-----------------------------------------------------------------------------
(* The parentheses of a subshell.                                          *)

\* the '(' that starts the text is closed by the ')' that ends it
OuterPairMatches(t) == t # <<>> /\ t[1] = "(" /\ ClosesAt(t, 2, 1) = Len(t)

\* C22 as stated: run_subshell is invoked only on the interior of a trimmed
\* text whose first character '(' is matched by the ')' that is its very
\* last character; a text such as `(a) (b)`, which starts with '(' and ends
\* with ')' that are not a pair, is not handed over with its unbalanced
\* interior.
C22_SubshellOuterPair ==
    \A f \in DOMAIN log :
        (log[f].ev = "fork" /\ log[f].text = <<"subshell">>) =>
            /\ log[f - 1].ev = "enter"
            /\ OuterPairMatches(trim_whitespace(log[f - 1].text))

\* `(true)(true)` was handed to a subshell, which ran its interior
\* `true)(true` as the name of a program
C22_Witness ==
    /\ chain = <<"(">> \o TrueCmd \o <<")", "(">> \o TrueCmd \o <<")">>
    /\ returned
    /\ status = 127
    /\ log[2].ev = "fork" /\ log[2].text = <<"subshell">>
    /\ log[3].ev = "enter"
    /\ log[3].text = TrueCmd \o <<")", "(">> \o TrueCmd
    /\ \E m \in DOMAIN log : log[m].ev = "exec" /\ log[m].text = log[3].text

-----------------------------------------------------------------------------
(* Termination of execute_chain.                                           *)

\* the call entered at event i is still being evaluated at event k: it has
\* not returned and its process has not ended
OpenAt(i, k) ==
    /\ i < k
    /\ log[i].ev = "enter"
    /\ \A m \in (i + 1) .. (k - 1) :
           /\ ~(log[m].ev = "leave" /\ log[m].ref = i)
           /\ ~(log[m].ev = "exit" /\ log[m].p.pid = log[i].p.pid)

\* the call that made the call entered at event k: the innermost one that
\* is still being evaluated, in the process itself or in the process that
\* forked it
CallerOf(k) ==
    {i \in 1 .. (k - 1) :
        OpenAt(i, k) /\ \A j \in (i + 1) .. (k - 1) : ~OpenAt(j, k)}

\* C23: every call of execute_chain terminates.  Every call made inside a
\* call (the sides of `;`, `&&`, `||` and `|`, the command of a
\* redirection, the rest after `!`, the interior of a subshell) is on a text
\* strictly shorter than its caller's; every call has returned or its
\* process has ended; and every wait is for a child that has ended, every
\* program that is started being one that ends.
C23_ExecuteChainTerminates ==
    /\ \A k \in DOMAIN log :
           (log[k].ev = "enter" /\ k > 1) =>
               /\ CallerOf(k) # {}
               /\ \A i \in CallerOf(k) : Len(log[k].text) < Len(log[i].text)
    /\ \A i \in DOMAIN log :
           log[i].ev = "enter" =>
               \/ LeaveOf(i) # {}
               \/ \E m \in DOMAIN log :
                      m > i /\ log[m].ev = "exit" /\ log[m].p.pid = log[i].p.pid
    /\ \A m \in DOMAIN log :
           log[m].ev = "wait" =>
               \E e \in 1 .. (m - 1) : log[e].ev = "exit" /\ log[e].p.pid = log[m].n

\* `!(true)`: three calls, each on a shorter text, all of which returned
C23_Witness ==
    /\ chain = <<"!", "(">> \o TrueCmd \o <<")">>
    /\ returned
    /\ status = 1
    /\ log[2].ev = "enter" /\ log[2].text = Tail(chain) /\ CallerOf(2) = {1}
    /\ log[4].ev = "enter" /\ log[4].text = TrueCmd /\ CallerOf(4) = {2}
    /\ LeaveOf(1) # {} /\ LeaveOf(2) # {} /\ LeaveOf(4) # {}

-----------------------------------------------------------------------------
(* Builtins as pipe stages and under redirections.                         *)

\* one command line of builtins, a program, a pipe, a redirection and ';'
BuiltinWords ==
    {CD \o <<" ", "/", "a">>, CD \o <<" ", "-">>, EXIT \o <<" ", "3", "0", "0">>,
     <<"x">>, <<"|">>, <<" ", ">", "w">>, <<";">>}

InitBuiltin == InitShell({<<t>> : t \in Texts(BuiltinWords, MaxWordsSt)}, {1}, {Calm})

SpecBuiltin == InitBuiltin /\ [][Next]_vars

\* the call entered at event i makes a pipe or forks for a redirection
ForksForPipeOrRedirect(i) ==
    /\ log[i].ev = "enter"
    /\ i + 1 \in DOMAIN log
    /\ log[i + 1].p.pid = log[i].p.pid
    /\ \/ log[i + 1].ev = "pipe"
       \/ log[i + 1].ev = "fork" /\ log[i + 1].text = <<"redirect">>

\* the command a redirection is applied to, in words
RedirectedCommand(c) == parse_command(RedirParse(c, RedirScan(c, Len(c), 0)).cmd)

\* C24: a builtin evaluated as a pipe stage or under a redirection runs in a
\* forked child and affects that child only.  Every call that makes a pipe
\* or applies a redirection returns, in the process that entered it and
\* with the working directory and prevDir of its entry, whatever cd and exit
\* did inside; and the call that applies a redirection to `exit N` returns N
\* masked to one byte, so that the rest of the line is evaluated.
C24_BuiltinsInChildren ==
    \A i \in DOMAIN log :
        ForksForPipeOrRedirect(i) =>
            /\ LeaveOf(i) # {}
            /\ \A j \in LeaveOf(i) :
                   /\ log[j].p.pid = log[i].p.pid
                   /\ log[j].p.cwd = log[i].p.cwd
                   /\ log[j].p.prevDir = log[i].p.prevDir
                   /\ (/\ log[i + 1].ev = "fork"
                       /\ Len(RedirectedCommand(log[i].text)) = 2
                       /\ RedirectedCommand(log[i].text)[1] = EXIT
                       /\ WellFormedDecimal(RedirectedCommand(log[i].text)[2])) =>
                          /\ log[j].n \in 0 .. 255
                          /\ (DecimalOf(RedirectedCommand(log[i].text)[2]) - log[j].n)
                                % 256 = 0
            /\ \A m \in DOMAIN log :
                   (m > i /\ log[m].ev \in {"cd", "exit_builtin"}
                       /\ \A j \in LeaveOf(i) : m < j) =>
                       log[m].p.pid # log[i].p.pid

\* `cd /a >w;x`: a child went to /a and the shell, still in /, ran x
C24_Witness ==
    /\ chain = CD \o <<" ", "/", "a", " ", ">", "w", ";", "x">>
    /\ returned
    /\ status = 3
    /\ cwd = <<"/">>
    /\ prevDir = <<>>
    /\ \E m \in DOMAIN log :
           /\ log[m].ev = "cd" /\ log[m].n = 0
           /\ log[m].p.pid # 1
           /\ log[m].p.cwd = <<"/", "a">>
    /\ \E m \in DOMAIN log :
           log[m].ev = "run" /\ log[m].p.pid = 1 /\ log[m].p.cwd = <<"/">>

-----------------------------------------------------------------------------
(* Redirection targets that start with '&'.                                *)

\* one interactive command line of redirections to '&' targets
AmpWords ==
    {TrueCmd, <<" ", "2", ">">>, <<"<">>, <<"&">>, <<"-">>, <<"1">>}

InitAmp == InitShell({<<t>> : t \in Texts(AmpWords, MaxWords)}, {0}, {Calm})

SpecAmp == InitAmp /\ [][Next]_vars

\* the redirection the call on text c applies
RedirectionOf(c) == RedirParse(c, RedirScan(c, Len(c), 0))

\* some descriptor of table f is the open file description d
HeldIn(f, d) == \E n \in DOMAIN f : f[n] = d

\* the child forked at event f for the target `&-` closes the destination
\* descriptor, or ends with 1 when it is not open, and opens nothing
ClosesOnly(f, o) ==
    /\ log[f + 1].p.pid = log[f].n
    /\ \/ /\ log[f + 1].ev = "close" /\ log[f + 1].n = o.dest_fd
          /\ log[f + 2].ev = "enter" /\ log[f + 2].text = o.cmd
          /\ log[f + 2].p.fds = [log[f].p.fds EXCEPT ![o.dest_fd] = Closed]
       \/ log[f + 1].ev = "exit" /\ log[f + 1].n = 1

\* the child forked at event f opens the target as a path, verbatim, and
\* enters the command with that new file, held by no one before, at the
\* destination descriptor
OpensVerbatim(f, o) ==
    /\ log[f + 1].p.pid = log[f].n
    /\ log[f + 1].ev = "open"
    /\ log[f + 1].text = o.file
    /\ log[f + 1].n # -1 => o.file \in files
    /\ (f + 2 \in DOMAIN log /\ log[f + 2].ev = "enter"
           /\ log[f + 2].p.pid = log[f].n) =>
           /\ log[f + 2].text = o.cmd
           /\ log[f + 2].p.fds[o.dest_fd][1] = "file"
           /\ ~HeldIn(log[f].p.fds, log[f + 2].p.fds[o.dest_fd])

-----------------------------------------------------------------------------
(* The exit code at the end of the input.                                  *)

\* a session, typed or read from a script, whose last line may ask for a
\* continuation that never comes
EofLines ==
    {FalseCmd, <<"x", " ", "&", "&">>, EXEC \o <<" ", "x", " ", "&", "&">>, EXIT, <<>>}

InitEof == InitShell(Inputs(EofLines, MaxLines), {0, 1}, {Calm})

SpecEof == InitEof /\ [][Next]_vars

\* fgets() is about to return NULL
AtEndOfInput == running /\ Assemble(input, FALSE, <<>>, 0).eof

\* a command is still being assembled then
PendingAtEnd == Assemble(input, FALSE, <<>>, 0).started

\* the shell process ended in the exit builtin
ExitBuiltinEnds(events) ==
    /\ Len(events) >= 2
    /\ events[Len(events)].ev = "exit" /\ events[Len(events)].p.pid = 1
    /\ events[Len(events) - 1].ev = "exit_builtin"

=============================================================================
